---------------------------- MODULE Spec2Model ----------------------------
(***************************************************************************)
(* Auto Arcana Wars, part 2: the combat resolution core.                   *)
(*                                                                         *)
(* src/utils.py      Stats.add_stat_changes, BaseItem, BaseCharacter       *)
(* src/items.py      the five item variants                                *)
(* src/characters.py Ninja, Mage, Warrior                                  *)
(* src/game.py       the roster loader                                     *)
(* src/backend.py    play_turn, play_round, play_match                     *)
(*                                                                         *)
(* Every stat of the program is a Python float.  The model keeps them as   *)
(* fixed-point integers, in units of 1/Scale: the stat 55.0 is 55 * Scale. *)
(* The inputs below are chosen so that every product of the program        *)
(* (0.25 * x, x * (1 - armor / 100), ...) is exact in these units.         *)
(***************************************************************************)
EXTENDS Integers, Sequences, FiniteSets, TLC

VARIABLES
    calc,       \* one call of Stats.add_stat_changes: its arguments and result
    hero,       \* a character being equipped by add_item calls
    add_call,   \* the last add_item call on hero: its arguments and outcome
    turn,       \* the last play_turn call: its arguments and outcome
    \* play_match
    pc,                 \* where the match is: start, match_loop, round_loop, ...
    your_files,         \* the roster files of your directory, in listing order
    opponent_files,     \* the roster files of the opponent's directory
    file_index,         \* the pair of files the for loop is at, from 1
    is_your_turn_first, \* the result of the first-mover draw
    your_points,
    opponent_points,
    match_log,
    match_won,
    draws,              \* every probability handed to rng_engine.rng, in order
    raised,             \* the exception that ended the match, or "none"
    \* play_round
    your_team,
    opponent_team,
    your_character_index,
    opponent_character_index,
    event_log,
    outcome

match_vars ==
    <<pc, your_files, opponent_files, file_index, is_your_turn_first, your_points,
      opponent_points, match_log, match_won, draws, raised>>

round_vars ==
    <<your_team, opponent_team, your_character_index, opponent_character_index,
      event_log, outcome>>

match_vars_but_pc ==
    <<your_files, opponent_files, file_index, is_your_turn_first, your_points,
      opponent_points, match_log, match_won, draws, raised>>

vars == <<calc, hero, add_call, turn, match_vars, round_vars>>

-----------------------------------------------------------------------------
(* Numbers *)

Scale == 100

Pts(n) == n * Scale

\* x * (n / d), the float product, exact on the model's inputs
Frac(x, n, d) == (x * n) \div d

Min(a, b) == IF a <= b THEN a ELSE b

Max(a, b) == IF a >= b THEN a ELSE b

-----------------------------------------------------------------------------
(* Stats (src/utils.py) *)

Stats(chp, thp, ar, mr, pp, mp, stc) ==
    [current_hp |-> chp, total_hp |-> thp, armor |-> ar,
     magic_resistance |-> mr, physical_power |-> pp, magic_power |-> mp,
     special_trigger_chance |-> stc]

\* Stats(): every field defaults to 0
NoStats == Stats(0, 0, 0, 0, 0, 0, 0)

SpecialCap == 100

\* the combination with no floor under armor
add_stat_changes_without_armor_floor(self, changes) ==
    [current_hp |-> Max(Min(self.current_hp + changes.current_hp,
                            self.total_hp + changes.total_hp), 0),
     total_hp |-> self.total_hp + changes.total_hp,
     armor |-> self.armor + changes.armor,
     magic_resistance |-> self.magic_resistance + changes.magic_resistance,
     physical_power |-> self.physical_power + changes.physical_power,
     magic_power |-> self.magic_power + changes.magic_power,
     special_trigger_chance |->
        Min(self.special_trigger_chance + changes.special_trigger_chance,
            Pts(SpecialCap))]

\* the combination with current_hp left free to pass total_hp
add_stat_changes_without_hp_cap(self, changes) ==
    [current_hp |-> Max(self.current_hp + changes.current_hp, 0),
     total_hp |-> self.total_hp + changes.total_hp,
     armor |-> Max(self.armor + changes.armor, 0),
     magic_resistance |-> self.magic_resistance + changes.magic_resistance,
     physical_power |-> self.physical_power + changes.physical_power,
     magic_power |-> self.magic_power + changes.magic_power,
     special_trigger_chance |->
        Min(self.special_trigger_chance + changes.special_trigger_chance,
            Pts(SpecialCap))]

add_stat_changes(self, changes) ==
    LET updated_current_hp ==
            Min(self.current_hp + changes.current_hp,
                self.total_hp + changes.total_hp)
        updated_total_hp == self.total_hp + changes.total_hp
        updated_special_trigger_chance ==
            Min(self.special_trigger_chance + changes.special_trigger_chance,
                Pts(SpecialCap))
    IN  [current_hp |-> Max(updated_current_hp, 0),
         total_hp |-> updated_total_hp,
         armor |-> Max(self.armor + changes.armor, 0),
         magic_resistance |-> self.magic_resistance + changes.magic_resistance,
         physical_power |-> self.physical_power + changes.physical_power,
         magic_power |-> self.magic_power + changes.magic_power,
         special_trigger_chance |-> updated_special_trigger_chance]

-----------------------------------------------------------------------------
(* Items (src/utils.py BaseItem, src/items.py) *)

ItemNames == {"Enchanted Sword", "Shiny Staff", "Pole", "Magic Cauldron", "Solid Rock"}

\* BaseItem.__init__: is_passive_active defaults to True
BaseItem(item_name, base_item_stats) ==
    [name |-> item_name, base_item_stats |-> base_item_stats,
     is_passive_active |-> TRUE]

\* add_item(None)
NoneItem == [name |-> "None", base_item_stats |-> NoStats, is_passive_active |-> FALSE]

is_unique_passive(item) == item.name \in {"Enchanted Sword", "Magic Cauldron"}

calculate_effective_stats(item, base_character_stats) ==
    CASE item.name = "Enchanted Sword" ->
            IF item.is_passive_active
            THEN [item.base_item_stats EXCEPT !.special_trigger_chance =
                    Pts(5) + Frac(base_character_stats.special_trigger_chance, 25, 100)]
            ELSE item.base_item_stats
      [] item.name = "Shiny Staff" ->
            IF item.is_passive_active
            THEN add_stat_changes(item.base_item_stats,
                    [NoStats EXCEPT !.magic_power =
                        Pts(1) + Frac(base_character_stats.magic_power, 5, 10)])
            ELSE item.base_item_stats
      [] item.name = "Magic Cauldron" ->
            IF item.is_passive_active
            THEN add_stat_changes(item.base_item_stats,
                    [NoStats EXCEPT
                        !.current_hp = Pts(10) + Frac(base_character_stats.total_hp, 3, 10),
                        !.total_hp = Pts(10) + Frac(base_character_stats.total_hp, 3, 10)])
            ELSE item.base_item_stats
      [] OTHER -> item.base_item_stats      \* Pole, Solid Rock

-----------------------------------------------------------------------------
(* Characters (src/utils.py BaseCharacter, src/characters.py) *)

CharacterNames == {"Ninja", "Mage", "Warrior"}

\* BaseCharacter.__init__ as the loader calls it: character_class(base_stats)
BaseCharacter(character_name, base_stats) ==
    [name |-> character_name, base_stats |-> base_stats,
     added_item_stats |-> NoStats, effective_stats |-> base_stats,
     items |-> <<>>]

MaxItems == 3

same_item_count(self, item) ==
    Cardinality({i \in 1..Len(self.items) : self.items[i].name = item.name})

\* the test made on the number of items held, whatever their names
already_has_item_of_any_name(self, item) == Len(self.items) > 1

\* "Checks if character already has item": the test the code makes
already_has_item(self, item) == same_item_count(self, item) > 1

capacity_reached_off_by_one(self) == Len(self.items) > MaxItems

capacity_reached(self) == Len(self.items) >= MaxItems

\* the effective stats made of the contribution of the newest item alone
effective_from_newest_item(effective_stats, items, base_stats) ==
    IF items = <<>> THEN effective_stats
    ELSE add_stat_changes(effective_stats,
                          calculate_effective_stats(items[Len(items)], base_stats))

RECURSIVE effective_from_items(_, _, _)
\* the loop of add_item: for item in self.items: effective_stats = ...
effective_from_items(effective_stats, items, base_stats) ==
    IF items = <<>> THEN effective_stats
    ELSE effective_from_items(
            add_stat_changes(effective_stats,
                             calculate_effective_stats(Head(items), base_stats)),
            Tail(items), base_stats)

\* add_item: the character and the item object after the call, and what it raised
add_item(self, item) ==
    IF item = NoneItem
    THEN [self |-> self, item |-> item, raised |-> "ValueError"]
    ELSE
    LET flagged == IF is_unique_passive(item) /\ already_has_item(self, item)
                   THEN [item EXCEPT !.is_passive_active = FALSE]
                   ELSE item
    IN  IF capacity_reached(self)
        THEN [self |-> self, item |-> flagged, raised |-> "ValueError"]
        ELSE
        LET items == Append(self.items, flagged)
            added == add_stat_changes(self.added_item_stats,
                        calculate_effective_stats(flagged, self.base_stats))
        IN  [self |-> [self EXCEPT
                        !.items = items,
                        !.added_item_stats = added,
                        !.effective_stats =
                            effective_from_items(self.base_stats, items, self.base_stats)],
             item |-> flagged,
             raised |-> "none"]

\* DamagePacket {physical, magic}: Damage(), Damage(physical=..), Damage(magic=..)
Damage(physical, magic) == [physical |-> physical, magic |-> magic]

\* AttackOutcome {damage, selfStatDelta, description}
Attack(damage, stat_updates_to_self, description) ==
    [damage |-> damage, stat_updates_to_self |-> stat_updates_to_self,
     description |-> description]

\* the f-string of a special attack: who performed it and the amount it names
Description(self, amount) ==
    [name |-> self.name, attack |-> "special", amount |-> amount]

NoDescription == [name |-> "None", attack |-> "none", amount |-> 0]

NoAttack == Attack(Damage(0, 0), NoStats, NoDescription)

ninja_damage(stats) ==
    Pts(40) + Frac(stats.physical_power, 5, 10) + Frac(stats.magic_power, 5, 10)

mage_damage(stats) == Pts(1) + Frac(stats.magic_power, 125, 100)

healing_amount(stats) ==
    Pts(50) + Frac(stats.physical_power, 75, 100) + 3 * stats.magic_power

\* the special attacks worked out from the base stats, items left out
special_attack_from_base_stats(self) ==
    CASE self.name = "Ninja" ->
            LET new_damage == ninja_damage(self.base_stats)
            IN  Attack(Damage(new_damage, 0), NoStats, Description(self, new_damage))
      [] self.name = "Mage" ->
            LET new_damage == mage_damage(self.base_stats)
            IN  Attack(Damage(0, new_damage), NoStats, Description(self, new_damage))
      [] self.name = "Warrior" ->
            LET healing == healing_amount(self.base_stats)
            IN  Attack(Damage(0, 0), [NoStats EXCEPT !.current_hp = healing],
                       Description(self, healing))

\* the special_attack property of the three variants
special_attack(self) ==
    CASE self.name = "Ninja" ->
            LET new_damage == ninja_damage(self.effective_stats)
            IN  Attack(Damage(new_damage, 0), NoStats, Description(self, new_damage))
      [] self.name = "Mage" ->
            LET new_damage == mage_damage(self.effective_stats)
            IN  Attack(Damage(0, new_damage), NoStats, Description(self, new_damage))
      [] self.name = "Warrior" ->
            LET healing == healing_amount(self.effective_stats)
            IN  Attack(Damage(0, 0), [NoStats EXCEPT !.current_hp = healing],
                       Description(self, healing))

\* basic_attack: no class of the program defines it, so reading it raises
has_basic_attack(self) == FALSE

-----------------------------------------------------------------------------
(* The decision source (src/utils.py RngEngine) *)

\* rng(probability): random() < probability / 100 with random() in [0, 1)
rng_outcomes(probability) ==
    {b \in BOOLEAN : (b => probability > 0) /\ (~b => probability < Pts(100))}

-----------------------------------------------------------------------------
(* Attack resolution (src/backend.py) *)

\* the damage with the armor and magic resistance left out
calculate_damage_taken_unmitigated(damage, character_stats) ==
    [NoStats EXCEPT !.current_hp = -(damage.physical + damage.magic)]

calculate_damage_taken(damage, character_stats) ==
    LET physical_part ==
            IF damage.physical > 0
            THEN Frac(damage.physical, Pts(100) - character_stats.armor, Pts(100))
            ELSE 0
        magic_part ==
            IF damage.magic > 0
            THEN Frac(damage.magic, Pts(100) - character_stats.magic_resistance, Pts(100))
            ELSE 0
    IN  [NoStats EXCEPT !.current_hp = -(physical_part + magic_part)]

\* the miss chance taken from armor for damage of either kind
calculate_miss_chance_from_armor(damage, character_stats) ==
    IF damage.physical > 0 \/ damage.magic > 0
    THEN Frac(character_stats.armor, 1, 10)
    ELSE 0

calculate_miss_chance(damage, character_stats) ==
    IF damage.physical > 0 THEN Frac(character_stats.armor, 1, 10)
    ELSE IF damage.magic > 0 THEN Frac(character_stats.magic_resistance, 1, 10)
    ELSE 0

\* "if damage is not None": the attack object was obtained
attack_present_only_with_damage(damage) ==
    damage.damage.physical > 0 \/ damage.damage.magic > 0

attack_present(damage) == damage # NoAttack

\* "if not is_damage_missed": a drawn miss negates the attack
damage_lands_always(is_damage_missed) == TRUE

damage_lands(is_damage_missed) == ~is_damage_missed

\* play_turn with the two results the decision source gives it.  The result
\* names both characters after the turn, the probabilities drawn in order,
\* and what was returned or raised.
play_turn(your_character, opponent_character, is_your_turn, is_attack_special, is_damage_missed) ==
    LET attacker == IF is_your_turn THEN your_character ELSE opponent_character
        defender == IF is_your_turn THEN opponent_character ELSE your_character
        special_chance == attacker.effective_stats.special_trigger_chance
    IN  IF ~is_attack_special /\ ~has_basic_attack(attacker)
        THEN [your_character |-> your_character,
              opponent_character |-> opponent_character,
              attack |-> NoAttack, draws |-> <<special_chance>>,
              description |-> NoDescription, raised |-> "AttributeError"]
        ELSE
        LET damage == special_attack(attacker)
            miss_chance == calculate_miss_chance(damage.damage, defender.effective_stats)
            hit == IF attack_present(damage) /\ damage_lands(is_damage_missed)
                   THEN [defender EXCEPT !.effective_stats =
                            add_stat_changes(defender.effective_stats,
                                calculate_damage_taken(damage.damage,
                                                       defender.effective_stats))]
                   ELSE defender
        IN  [your_character |-> IF is_your_turn THEN attacker ELSE hit,
             opponent_character |-> IF is_your_turn THEN hit ELSE attacker,
             attack |-> damage,
             draws |-> IF attack_present(damage)
                       THEN <<special_chance, miss_chance>>
                       ELSE <<special_chance>>,
             description |-> damage.description,
             \* None.description
             raised |-> IF damage = NoAttack THEN "AttributeError" ELSE "none"]

\* the results the decision source can give one play_turn call
turn_rolls(your_character, opponent_character, is_your_turn) ==
    {r \in BOOLEAN \X BOOLEAN :
        LET t == play_turn(your_character, opponent_character, is_your_turn, r[1], r[2])
        IN  /\ r[1] \in rng_outcomes(t.draws[1])
            /\ IF Len(t.draws) = 2 THEN r[2] \in rng_outcomes(t.draws[2])
               ELSE r[2] = FALSE}

\* a character counted as fallen only below zero
fallen_only_below_zero(character) == character.effective_stats.current_hp < 0

\* "if opponent_character.effective_stats.current_hp <= 0"
fallen_when_hurt(character) ==
    character.effective_stats.current_hp < character.effective_stats.total_hp

fallen(character) == character.effective_stats.current_hp <= 0

\* what your_attack and opponent_attack return after the turn: None when the
\* defender fell and was the last of its team, else the defending side's index
attack_result(defender, defender_team, defender_index) ==
    IF fallen(defender)
    THEN IF defender_index + 1 < Len(defender_team)
         THEN [none |-> FALSE, index |-> defender_index + 1]
         ELSE [none |-> TRUE, index |-> defender_index]
    ELSE [none |-> FALSE, index |-> defender_index]

-----------------------------------------------------------------------------
(* The roster loader (src/game.py) *)

\* the "stats" object of a roster file, in natural units; an absent key is 0
StatsData(hp, ar, mr, pp, mp, stc) ==
    [hp |-> Pts(hp), armor |-> Pts(ar), magic_resistance |-> Pts(mr),
     physical_power |-> Pts(pp), magic_power |-> Pts(mp),
     special_trigger_chance |-> Pts(stc)]

CharacterData(character_name, stats) == [name |-> character_name, stats |-> stats]

ItemData(item_name, stats) == [name |-> item_name, stats |-> stats]

Entry(character, items) == [character |-> character, items |-> items]

name_to_character_class ==
    [n \in {"ninja", "mage", "warrior"} |->
        CASE n = "ninja" -> "Ninja" [] n = "mage" -> "Mage" [] n = "warrior" -> "Warrior"]

name_to_item_class ==
    [n \in {"enchanted_sword", "shiny_staff", "pole", "magic_cauldron", "solid_rock"} |->
        CASE n = "enchanted_sword" -> "Enchanted Sword"
          [] n = "shiny_staff" -> "Shiny Staff"
          [] n = "pole" -> "Pole"
          [] n = "magic_cauldron" -> "Magic Cauldron"
          [] n = "solid_rock" -> "Solid Rock"]

NoCharacter == BaseCharacter("None", NoStats)

\* hp maps to both current_hp and total_hp
stats_from_data(d) ==
    Stats(d.hp, d.hp, d.armor, d.magic_resistance, d.physical_power,
          d.magic_power, d.special_trigger_chance)

\* a character of an unknown name made a Ninja instead of an error
create_character_of_any_name(character_data) ==
    LET base_stats == stats_from_data(character_data.character.stats)
        character_name == character_data.character.name
    IN  [raised |-> "none",
         character |-> BaseCharacter(
            IF character_name \in DOMAIN name_to_character_class
            THEN name_to_character_class[character_name] ELSE "Ninja",
            base_stats)]

create_character(character_data) ==
    LET base_stats == stats_from_data(character_data.character.stats)
        character_name == character_data.character.name
    IN  IF character_name \notin DOMAIN name_to_character_class
        THEN [raised |-> "ValueError", character |-> NoCharacter]
        ELSE [raised |-> "none",
              character |-> BaseCharacter(name_to_character_class[character_name],
                                          base_stats)]

create_item(item_data) ==
    IF item_data.name # "magic_cauldron" /\ item_data.stats.hp # 0
    THEN [raised |-> "TypeError", item |-> NoneItem]     \* Stats(hp=...) is no field
    ELSE IF item_data.name \notin DOMAIN name_to_item_class
    THEN [raised |-> "ValueError", item |-> NoneItem]
    ELSE [raised |-> "none",
          item |-> BaseItem(name_to_item_class[item_data.name],
                            stats_from_data(item_data.stats))]

RECURSIVE add_items(_, _)
\* for item_data in character_data['items']: character.add_item(create_item(item_data))
add_items(character, items_data) ==
    IF items_data = <<>> THEN [raised |-> "none", character |-> character]
    ELSE LET made == create_item(Head(items_data))
         IN  IF made.raised # "none"
             THEN [raised |-> made.raised, character |-> character]
             ELSE LET added == add_item(character, made.item)
                  IN  IF added.raised # "none"
                      THEN [raised |-> added.raised, character |-> character]
                      ELSE add_items(added.self, Tail(items_data))

\* one roster entry: the character with its items
load_entry(character_data) ==
    LET made == create_character(character_data)
    IN  IF made.raised # "none" THEN made
        ELSE add_items(made.character, character_data.items)

RECURSIVE read_entries(_, _)
read_entries(team_data, character_list) ==
    IF team_data = <<>> THEN [raised |-> "none", character_list |-> character_list]
    ELSE LET loaded == load_entry(Head(team_data))
         IN  IF loaded.raised # "none"
             THEN [raised |-> loaded.raised, character_list |-> <<>>]
             ELSE read_entries(Tail(team_data), Append(character_list, loaded.character))

\* read_data: the character list, or the error that leaves the caller without one
read_data(team_data) == read_entries(team_data, <<>>)

-----------------------------------------------------------------------------
(* Inputs *)

\* the pairs (self, changes) add_stat_changes is applied to
StatsInputs ==
    {Stats(Pts(hp[1]), Pts(hp[2]), Pts(ar), 0, Pts(10), Pts(10), Pts(stc)) :
        hp \in {<<0, 0>>, <<0, 50>>, <<30, 50>>, <<50, 50>>},
        ar \in {0, 20}, stc \in {0, 50, 100}}

ChangesInputs ==
    {Stats(Pts(chp), Pts(thp), Pts(ar), Pts(mr), 0, 0, Pts(stc)) :
        chp \in {-60, -20, 0, 20}, thp \in {-60, 0, 20},
        ar \in {-30, 0, 10}, mr \in {-5, 0}, stc \in {-60, 0, 60}}

\* the characters add_item is called on, fresh from create_character
HeroInputs ==
    {Entry(CharacterData("ninja", StatsData(100, 10, 0, 20, 10, 20)), <<>>),
     Entry(CharacterData("warrior", StatsData(50, 0, 10, 10, 0, 100)), <<>>)}

\* the items handed to add_item
ItemInputs ==
    {ItemData("enchanted_sword", StatsData(0, 0, 0, 10, 2, 0)),
     ItemData("enchanted_sword", StatsData(0, 0, 0, 4, 0, 10)),
     ItemData("magic_cauldron", StatsData(20, 0, 0, 0, 0, 0)),
     ItemData("shiny_staff", StatsData(0, 0, 0, 2, 4, 0)),
     ItemData("pole", StatsData(0, 0, 0, 6, 0, 0)),
     ItemData("solid_rock", StatsData(0, 20, 20, 0, 0, 0))}

\* the characters play_turn is called on: attackers of every variant, with
\* and without an item, and defenders of every armor and magic resistance
AttackerInputs ==
    {Entry(CharacterData(n, StatsData(100, 0, 0, pp, mp, stc)), <<>>) :
        n \in {"ninja", "mage", "warrior"}, pp \in {0, 20}, mp \in {0, 10},
        stc \in {0, 50, 100}}
    \cup
    {Entry(CharacterData(n, StatsData(100, 0, 0, 20, mp, 100)),
           <<ItemData("shiny_staff", StatsData(0, 0, 0, 0, 4, 0))>>) :
        n \in {"ninja", "mage", "warrior"}, mp \in {0, 10}}

DefenderInputs ==
    {Entry(CharacterData("warrior", StatsData(hp, ar, mr, 10, 5, 100)), <<>>) :
        hp \in {0, 55, 100}, ar \in {-10, 0, 20, 150, 1000}, mr \in {0, 20}}
    \cup
    {Entry(CharacterData("warrior", StatsData(100, 0, 0, 10, 5, 150)), <<>>)}


\* roster files
Striker == Entry(CharacterData("ninja", StatsData(150, 0, 0, 20, 10, 100)), <<>>)

Gambler == Entry(CharacterData("ninja", StatsData(100, 0, 0, 20, 10, 50)), <<>>)

StaffMage ==
    Entry(CharacterData("mage", StatsData(55, 0, 0, 0, 10, 100)),
          <<ItemData("shiny_staff", StatsData(0, 0, 0, 0, 4, 0))>>)

Guard ==
    Entry(CharacterData("warrior", StatsData(24, 0, 0, 10, 5, 100)),
          <<ItemData("solid_rock", StatsData(0, 20, 20, 0, 0, 0)),
            ItemData("magic_cauldron", StatsData(2, 0, 0, 0, 0, 0))>>)

Hoarder ==
    Entry(CharacterData("ninja", StatsData(100, 0, 0, 20, 10, 100)),
          <<ItemData("pole", StatsData(0, 0, 0, 6, 0, 0)),
            ItemData("pole", StatsData(0, 0, 0, 6, 0, 0)),
            ItemData("enchanted_sword", StatsData(0, 0, 0, 10, 2, 0)),
            ItemData("solid_rock", StatsData(0, 20, 20, 0, 0, 0))>>)

Dragon == Entry(CharacterData("dragon", StatsData(100, 0, 0, 20, 10, 100)), <<>>)

Looter ==
    Entry(CharacterData("ninja", StatsData(100, 0, 0, 20, 10, 100)),
          <<ItemData("pole", StatsData(0, 0, 0, 6, 0, 0)),
            ItemData("pebble", StatsData(0, 0, 0, 1, 0, 0))>>)

Bulwark == Entry(CharacterData("warrior", StatsData(100, 2000, 0, 10, 5, 100)), <<>>)

TeamFiles ==
    {<<>>, <<Striker>>, <<StaffMage, Guard>>, <<Guard>>, <<Gambler, Striker>>,
     <<Striker, Hoarder>>, <<StaffMage, Dragon>>, <<Striker, Looter>>, <<Bulwark>>}

\* what os.listdir finds in a directory of roster files
Directories ==
    {<<>>} \cup {<<f>> : f \in TeamFiles}
    \cup {<<<<Striker>>, <<StaffMage, Guard>>>>,
          <<<<StaffMage, Guard>>, <<Striker>>, <<Guard>>>>,
          <<<<Striker>>, <<Striker>>, <<Striker>>>>,
          <<<<Striker>>, <<Striker, Looter>>>>,
          <<<<StaffMage, Guard>>, <<Guard>>, <<StaffMage, Guard>>>>}

-----------------------------------------------------------------------------
(* State *)

CalcIdle == [phase |-> "idle", self |-> NoStats, changes |-> NoStats, result |-> NoStats]

AddCallIdle ==
    [phase |-> "idle", before |-> NoCharacter, item |-> NoneItem,
     item_after |-> NoneItem, raised |-> "none"]

TurnIdle ==
    [phase |-> "idle", your_character |-> NoCharacter,
     opponent_character |-> NoCharacter, is_your_turn |-> FALSE,
     is_attack_special |-> FALSE, is_damage_missed |-> FALSE,
     your_after |-> NoCharacter, opponent_after |-> NoCharacter,
     attack |-> NoAttack, draws |-> <<>>, description |-> NoDescription,
     raised |-> "none"]

\* no match is being played
MatchIdle ==
    /\ pc = "idle"
    /\ your_files = <<>>
    /\ opponent_files = <<>>
    /\ file_index = 0
    /\ is_your_turn_first = FALSE
    /\ your_points = 0
    /\ opponent_points = 0
    /\ match_log = <<>>
    /\ match_won = FALSE
    /\ draws = <<>>
    /\ raised = "none"
    /\ your_team = <<>>
    /\ opponent_team = <<>>
    /\ your_character_index = 0
    /\ opponent_character_index = 0
    /\ event_log = <<>>
    /\ outcome = FALSE

-----------------------------------------------------------------------------
(* Stats.add_stat_changes on its own *)

InitStats ==
    /\ \E self \in StatsInputs, changes \in ChangesInputs :
            calc = [phase |-> "call", self |-> self, changes |-> changes,
                    result |-> NoStats]
    /\ hero = NoCharacter
    /\ add_call = AddCallIdle
    /\ turn = TurnIdle
    /\ MatchIdle

AddStatChanges ==
    /\ calc.phase = "call"
    /\ calc' = [calc EXCEPT !.phase = "returned",
                            !.result = add_stat_changes(calc.self, calc.changes)]
    /\ UNCHANGED <<hero, add_call, turn, match_vars, round_vars>>

NextStats == AddStatChanges

SpecStats == InitStats /\ [][NextStats]_vars

-----------------------------------------------------------------------------
(* BaseCharacter.add_item, call after call on one character *)

InitAddItem ==
    /\ \E e \in HeroInputs : hero = create_character(e).character
    /\ add_call = AddCallIdle
    /\ calc = CalcIdle
    /\ turn = TurnIdle
    /\ MatchIdle

AddItemCall(item) ==
    LET r == add_item(hero, item)
    IN  /\ hero' = r.self
        /\ add_call' = [phase |-> IF r.raised = "none" THEN "returned" ELSE "raised",
                        before |-> hero, item |-> item, item_after |-> r.item,
                        raised |-> r.raised]
        /\ UNCHANGED <<calc, turn, match_vars, round_vars>>

AddItem == \E d \in ItemInputs : AddItemCall(create_item(d).item)

AddNone == AddItemCall(NoneItem)

NextAddItem == AddItem \/ AddNone

SpecAddItem == InitAddItem /\ [][NextAddItem]_vars

-----------------------------------------------------------------------------
(* play_turn, call after call on one pair of characters *)

InitTurn ==
    /\ \E a \in AttackerInputs, d \in DefenderInputs, attacker_is_yours \in BOOLEAN :
        LET attacker == load_entry(a).character
            defender == load_entry(d).character
        IN  turn = [TurnIdle EXCEPT
                        !.phase = "call",
                        !.your_after = IF attacker_is_yours THEN attacker ELSE defender,
                        !.opponent_after = IF attacker_is_yours THEN defender ELSE attacker]
    /\ calc = CalcIdle
    /\ hero = NoCharacter
    /\ add_call = AddCallIdle
    /\ MatchIdle

\* the record of one play_turn call on (your_character, opponent_character)
TurnRecord(your_character, opponent_character, is_your_turn, rolls) ==
    LET t == play_turn(your_character, opponent_character, is_your_turn,
                       rolls[1], rolls[2])
    IN  [phase |-> IF t.raised = "none" THEN "returned" ELSE "raised",
         your_character |-> your_character,
         opponent_character |-> opponent_character,
         is_your_turn |-> is_your_turn,
         is_attack_special |-> rolls[1], is_damage_missed |-> rolls[2],
         your_after |-> t.your_character,
         opponent_after |-> t.opponent_character,
         attack |-> t.attack, draws |-> t.draws, description |-> t.description,
         raised |-> t.raised]

PlayTurn ==
    /\ turn.phase \in {"call", "returned"}
    /\ \E is_your_turn \in BOOLEAN :
        \E rolls \in turn_rolls(turn.your_after, turn.opponent_after, is_your_turn) :
            turn' = TurnRecord(turn.your_after, turn.opponent_after, is_your_turn, rolls)
    /\ UNCHANGED <<calc, hero, add_call, match_vars, round_vars>>

NextTurn == PlayTurn

SpecTurn == InitTurn /\ [][NextTurn]_vars

-----------------------------------------------------------------------------
(* play_match and play_round *)

MaxTurns == 4

Init ==
    /\ calc = CalcIdle
    /\ hero = NoCharacter
    /\ add_call = AddCallIdle
    /\ turn = TurnIdle
    /\ pc = "start"
    /\ your_files \in Directories
    /\ opponent_files \in Directories
    /\ file_index = 0
    /\ is_your_turn_first = FALSE
    /\ your_points = 0
    /\ opponent_points = 0
    /\ match_log = <<>>
    /\ match_won = FALSE
    /\ draws = <<>>
    /\ raised = "none"
    /\ your_team = <<>>
    /\ opponent_team = <<>>
    /\ your_character_index = 0
    /\ opponent_character_index = 0
    /\ event_log = <<>>
    /\ outcome = FALSE

\* zip(your_files, opponent_files)
Pairs == Min(Len(your_files), Len(opponent_files))

\* the first-mover draw made with a fraction for its probability
first_mover_draws_as_fraction == <<Pts(1) \div 2>>

\* the draws play_match makes before its for loop: rng(probability=50)
first_mover_draws == <<Pts(50)>>

\* play_match up to its for loop: the first-mover draw
MatchStart ==
    /\ pc = "start"
    /\ \E first \in rng_outcomes(first_mover_draws[1]) : is_your_turn_first' = first
    /\ draws' = first_mover_draws
    /\ your_points' = 0
    /\ opponent_points' = 0
    /\ match_log' = <<>>
    /\ file_index' = 1
    /\ pc' = "match_loop"
    /\ UNCHANGED <<calc, hero, add_call, turn, your_files, opponent_files,
                   match_won, raised, round_vars>>

\* the next pair of files: play_round is called and loads both rosters
RoundStart ==
    /\ pc = "match_loop"
    /\ file_index <= Pairs
    /\ LET yours == read_data(your_files[file_index])
           theirs == read_data(opponent_files[file_index])
           error == IF yours.raised # "none" THEN yours.raised ELSE theirs.raised
       IN  IF error # "none"
           THEN /\ pc' = "raised"
                /\ raised' = error
                /\ UNCHANGED round_vars
           ELSE /\ pc' = "round_loop"
                /\ your_team' = yours.character_list
                /\ opponent_team' = theirs.character_list
                /\ your_character_index' = 0
                /\ opponent_character_index' = 0
                /\ event_log' = <<>>
                /\ outcome' = TRUE
                /\ UNCHANGED raised
    /\ UNCHANGED <<calc, hero, add_call, turn, your_files, opponent_files,
                   file_index, is_your_turn_first, your_points, opponent_points,
                   match_log, match_won, draws>>

\* the loop condition that looks at your roster alone
loop_condition_on_your_team_alone == your_character_index < Len(your_team)

\* the condition of play_round's while loop
LoopCondition ==
    /\ your_character_index < Len(your_team)
    /\ opponent_character_index < Len(opponent_team)

\* the side that attacks in the pass after turns_resolved turns, by turns
your_side_attacks_alternating(first, turns_resolved) ==
    IF turns_resolved % 2 = 0 THEN first ELSE ~first

\* "if is_your_turn_first": the side that attacks in every pass of the loop
your_side_attacks(first, turns_resolved) == first

\* one pass of the loop when you move first: your_attack and what follows it
YourAttack ==
    /\ pc = "round_loop"
    /\ LoopCondition
    /\ your_side_attacks(is_your_turn_first, Len(event_log))
    /\ Len(event_log) < MaxTurns
    /\ LET your_character == your_team[your_character_index + 1]
           opponent_character == opponent_team[opponent_character_index + 1]
       IN  \E rolls \in turn_rolls(your_character, opponent_character, TRUE) :
            LET t == TurnRecord(your_character, opponent_character, TRUE, rolls)
                result == attack_result(t.opponent_after, opponent_team,
                                        opponent_character_index)
            IN  /\ turn' = t
                /\ draws' = draws \o t.draws
                /\ IF t.raised # "none"
                   THEN /\ pc' = "raised"
                        /\ raised' = t.raised
                        /\ UNCHANGED round_vars
                   ELSE /\ event_log' = Append(event_log, t.description)
                        /\ your_team' =
                            [your_team EXCEPT ![your_character_index + 1] = t.your_after]
                        /\ opponent_team' =
                            [opponent_team EXCEPT
                                ![opponent_character_index + 1] = t.opponent_after]
                        /\ pc' = IF result.none THEN "round_end" ELSE "round_loop"
                        /\ opponent_character_index' = result.index
                        /\ UNCHANGED <<your_character_index, outcome, raised>>
    /\ UNCHANGED <<calc, hero, add_call, your_files, opponent_files, file_index,
                   is_your_turn_first, your_points, opponent_points, match_log,
                   match_won>>

\* one pass of the loop when the opponent moves first
OpponentAttack ==
    /\ pc = "round_loop"
    /\ LoopCondition
    /\ ~your_side_attacks(is_your_turn_first, Len(event_log))
    /\ Len(event_log) < MaxTurns
    /\ LET your_character == your_team[your_character_index + 1]
           opponent_character == opponent_team[opponent_character_index + 1]
       IN  \E rolls \in turn_rolls(your_character, opponent_character, FALSE) :
            LET t == TurnRecord(your_character, opponent_character, FALSE, rolls)
                result == attack_result(t.your_after, your_team, your_character_index)
            IN  /\ turn' = t
                /\ draws' = draws \o t.draws
                /\ IF t.raised # "none"
                   THEN /\ pc' = "raised"
                        /\ raised' = t.raised
                        /\ UNCHANGED round_vars
                   ELSE /\ event_log' = Append(event_log, t.description)
                        /\ your_team' =
                            [your_team EXCEPT ![your_character_index + 1] = t.your_after]
                        /\ opponent_team' =
                            [opponent_team EXCEPT
                                ![opponent_character_index + 1] = t.opponent_after]
                        /\ pc' = IF result.none THEN "round_end" ELSE "round_loop"
                        /\ your_character_index' = result.index
                        /\ UNCHANGED <<opponent_character_index, outcome, raised>>
    /\ UNCHANGED <<calc, hero, add_call, your_files, opponent_files, file_index,
                   is_your_turn_first, your_points, opponent_points, match_log,
                   match_won>>

\* "outcome = your_character_index > opponent_character_index"
round_outcome(your_index, opponent_index) == your_index > opponent_index

\* the loop is left, by its condition or by break, and play_round returns
RoundReturn ==
    /\ pc = "round_end" \/ (pc = "round_loop" /\ ~LoopCondition)
    /\ outcome' = round_outcome(your_character_index, opponent_character_index)
    /\ pc' = "round_returned"
    /\ UNCHANGED <<calc, hero, add_call, turn, match_vars_but_pc, your_team,
                   opponent_team, your_character_index, opponent_character_index,
                   event_log>>

\* the round's log put in front of the match log
extend_match_log_in_front(log, round_log) == round_log \o log

\* "for event in event_log: match_log.append(event)"
extend_match_log(log, round_log) == log \o round_log

\* play_match takes the round's outcome: a point, and the round's log
MatchTally ==
    /\ pc = "round_returned"
    /\ your_points' = IF outcome THEN your_points + 1 ELSE your_points
    /\ opponent_points' = IF outcome THEN opponent_points ELSE opponent_points + 1
    /\ match_log' = extend_match_log(match_log, event_log)
    /\ file_index' = file_index + 1
    /\ pc' = "match_loop"
    /\ UNCHANGED <<calc, hero, add_call, turn, your_files, opponent_files,
                   is_your_turn_first, match_won, draws, raised, round_vars>>

\* a match won on equal points
match_outcome_with_ties(points, other_points) == points >= other_points

\* "match_won = your_points > opponent_points"
match_outcome(points, other_points) == points > other_points

\* the for loop is over and play_match returns
MatchReturn ==
    /\ pc = "match_loop"
    /\ file_index > Pairs
    /\ match_won' = match_outcome(your_points, opponent_points)
    /\ pc' = "done"
    /\ UNCHANGED <<calc, hero, add_call, turn, your_files, opponent_files,
                   file_index, is_your_turn_first, your_points, opponent_points,
                   match_log, draws, raised, round_vars>>

Next ==
    \/ MatchStart
    \/ RoundStart
    \/ YourAttack
    \/ OpponentAttack
    \/ RoundReturn
    \/ MatchTally
    \/ MatchReturn

Spec == Init /\ [][Next]_vars

-----------------------------------------------------------------------------
(* Properties of Stats.add_stat_changes (SpecStats) *)

\* C5: for every base and delta, add_stat_changes returns Stats with
\* 0 <= current_hp <= total_hp, 0 <= special_trigger_chance <= 100,
\* armor >= 0 and total_hp >= 0.
C5_CombinationInRange ==
    calc.phase = "returned" =>
        /\ 0 <= calc.result.current_hp
        /\ calc.result.current_hp <= calc.result.total_hp
        /\ 0 <= calc.result.special_trigger_chance
        /\ calc.result.special_trigger_chance <= 100 * Scale
        /\ calc.result.armor >= 0
        /\ calc.result.total_hp >= 0

-----------------------------------------------------------------------------
(* Properties of add_item (SpecAddItem) *)

HeldCopies(character, item_name) ==
    {i \in 1..Len(character.items) : character.items[i].name = item_name}

\* C4: adding a unique-passive item to a character that holds exactly one
\* item of the same name disables the new copy's passive, and the effective
\* stats are the base stats combined with what the held items contribute
\* and with only the base item stats of the new copy.
C4_SecondCopyInert ==
    (/\ add_call.phase = "returned"
     /\ add_call.item.name \in {"Enchanted Sword", "Magic Cauldron"}
     /\ Cardinality(HeldCopies(add_call.before, add_call.item.name)) = 1)
    =>
        /\ ~add_call.item_after.is_passive_active
        /\ hero.effective_stats =
            add_stat_changes(add_call.before.effective_stats,
                             add_call.item.base_item_stats)

\* C6: add_item on a character that holds 3 items raises ValueError for
\* every item and leaves items, added_item_stats and effective_stats as they
\* were; a character never holds more than 3 items.
C6_FourthItemRejected ==
    /\ Len(hero.items) <= 3
    /\ (add_call.phase # "idle" /\ Len(add_call.before.items) >= 3) =>
            /\ add_call.phase = "raised"
            /\ add_call.raised = "ValueError"
            /\ hero.items = add_call.before.items
            /\ hero.added_item_stats = add_call.before.added_item_stats
            /\ hero.effective_stats = add_call.before.effective_stats

\* a fourth item of a kind the character does not hold was handed in and rejected
C6_Witness ==
    /\ add_call.phase = "raised"
    /\ Len(add_call.before.items) = 3
    /\ add_call.item.name = "Solid Rock"
    /\ HeldCopies(add_call.before, "Solid Rock") = {}
    /\ Len(hero.items) = 3

-----------------------------------------------------------------------------
(* Properties of play_turn (SpecTurn) *)

TurnAttacker == IF turn.is_your_turn THEN turn.your_character ELSE turn.opponent_character

TurnDefender == IF turn.is_your_turn THEN turn.opponent_character ELSE turn.your_character

TurnAttackerAfter == IF turn.is_your_turn THEN turn.your_after ELSE turn.opponent_after

TurnDefenderAfter == IF turn.is_your_turn THEN turn.opponent_after ELSE turn.your_after

TurnDealsDamage == turn.attack.damage.physical > 0 \/ turn.attack.damage.magic > 0

C3_WarriorHealApplied ==
    (turn.phase = "returned" /\ TurnAttacker.name = "Warrior" /\ turn.is_attack_special)
    =>
        LET stats == TurnAttacker.effective_stats
            heal == 50 * Scale + (75 * stats.physical_power) \div 100
                        + 3 * stats.magic_power
            delta == [NoStats EXCEPT !.current_hp = heal, !.total_hp = heal]
        IN  /\ turn.attack.stat_updates_to_self = delta
            /\ TurnAttackerAfter.effective_stats = add_stat_changes(stats, delta)
            /\ TurnDefenderAfter.effective_stats = TurnDefender.effective_stats

\* C8: a damaging attack that is not missed leaves the defender's
\* current_hp at its value before the turn minus physical * (1 - armor/100)
\* minus magic * (1 - magic_resistance/100), clamped to [0, total_hp].
C8_MitigatedDamage ==
    (turn.phase = "returned" /\ TurnDealsDamage /\ ~turn.is_damage_missed)
    =>
        LET stats == TurnDefender.effective_stats
            physical == turn.attack.damage.physical
            magic == turn.attack.damage.magic
            left == stats.current_hp
                    - (physical * (100 * Scale - stats.armor)) \div (100 * Scale)
                    - (magic * (100 * Scale - stats.magic_resistance)) \div (100 * Scale)
            clamped == IF left < 0 THEN 0
                       ELSE IF left > stats.total_hp THEN stats.total_hp
                       ELSE left
        IN  TurnDefenderAfter.effective_stats.current_hp = clamped

\* the Ninja of the scenario (physical_power 20, magic_power 10) hits an
\* undefended character for 55
C8_Witness ==
    /\ turn.phase = "returned"
    /\ ~turn.is_damage_missed
    /\ TurnAttacker.name = "Ninja"
    /\ turn.attack.damage = Damage(55 * Scale, 0)
    /\ TurnDefender.effective_stats.armor = 0
    /\ TurnDefender.effective_stats.current_hp = 100 * Scale
    /\ TurnDefenderAfter.effective_stats.current_hp = 45 * Scale

\* C9: when the miss draw returns true the attack is negated: both
\* characters are after the turn as they were before it, the description
\* of the attack is still returned and the miss draw was consumed.
C9_MissNegates ==
    (turn.phase = "returned" /\ turn.is_damage_missed)
    =>
        /\ turn.your_after = turn.your_character
        /\ turn.opponent_after = turn.opponent_character
        /\ turn.description = turn.attack.description
        /\ turn.description.name = TurnAttacker.name
        /\ Len(turn.draws) = 2

\* a Ninja's blow at a living character of armor 20 (miss chance 2) was missed
C9_Witness ==
    /\ turn.phase = "returned"
    /\ turn.is_damage_missed
    /\ turn.attack.damage.physical > 0
    /\ TurnDefender.effective_stats.armor = 20 * Scale
    /\ TurnDefender.effective_stats.current_hp > 0
    /\ turn.draws[2] = 2 * Scale

\* C10: for every variant, a turn whose special-trigger draw returns false
\* resolves the basic attack: it completes without error, with a described
\* damage outcome and no stat change to the attacker.
C10_BasicAttackResolves ==
    (turn.phase \in {"returned", "raised"} /\ ~turn.is_attack_special)
    =>
        /\ turn.phase = "returned"
        /\ turn.raised = "none"
        /\ turn.description # NoDescription
        /\ turn.attack.stat_updates_to_self = NoStats
        /\ TurnAttackerAfter = TurnAttacker

-----------------------------------------------------------------------------
(* Properties of play_round (Spec) *)

DefendingTeam == IF is_your_turn_first THEN opponent_team ELSE your_team

RoundOver == pc \in {"round_end", "round_returned"}

\* C1: when a turn brings the last character of the defending roster to
\* current_hp 0 the round ends and the attacking side is the winner:
\* play_round returns True when you attacked and False when the opponent did.
C1_AttackerWinsRound ==
    (/\ pc = "round_returned"
     /\ Len(your_team) >= 1
     /\ Len(opponent_team) >= 1
     /\ DefendingTeam[Len(DefendingTeam)].effective_stats.current_hp = 0)
    => outcome = is_your_turn_first

\* C7 as stated: a round resolves at most len(your_team) + len(opponent_team) turns.
C7_TurnsBoundedByRosters ==
    Len(event_log) <= Len(your_team) + Len(opponent_team)

\* C7 as amended: an index advances only when a turn fells the active
\* defender, and a round between two manned rosters ends only when every
\* character of the defending roster has fallen, after at least
\* len(defending roster) turns; the number of turns has no bound in the
\* roster sizes.
C7_RoundEndsWhenDefendersFell ==
    /\ your_character_index + opponent_character_index <= Len(event_log)
    /\ (RoundOver /\ Len(your_team) >= 1 /\ Len(opponent_team) >= 1) =>
            /\ Len(event_log) >= Len(DefendingTeam)
            /\ \A i \in 1..Len(DefendingTeam) :
                    DefendingTeam[i].effective_stats.current_hp <= 0

\* a round of one character against one has ended after three turns
C7_Witness ==
    /\ pc = "round_returned"
    /\ Len(your_team) = 1
    /\ Len(opponent_team) = 1
    /\ Len(event_log) = 3

-----------------------------------------------------------------------------
(* Properties of play_match (Spec) *)

InRound == pc \in {"round_loop", "round_end", "round_returned"}

\* a step that resolves a turn: every play_turn call draws
TurnStep == pc = "round_loop" /\ draws' # draws

AttackingTeam == IF is_your_turn_first THEN your_team ELSE opponent_team

AttackingIndex ==
    IF is_your_turn_first THEN your_character_index ELSE opponent_character_index

DefendingIndex ==
    IF is_your_turn_first THEN opponent_character_index ELSE your_character_index

\* the roster of the attacking side as read_data made it for this round
AttackingTeamLoaded ==
    read_data(IF is_your_turn_first THEN your_files[file_index]
              ELSE opponent_files[file_index]).character_list

\* C11: in every turn of every round the attacker is the active character
\* of the side the first-mover draw chose and the defender the active
\* character of the other side; the attacking side's index never advances
\* and none of its characters takes damage during the round.
C11_OneSideAttacks ==
    /\ [][TurnStep =>
            /\ turn'.is_your_turn = is_your_turn_first
            /\ turn'.your_character = your_team[your_character_index + 1]
            /\ turn'.opponent_character = opponent_team[opponent_character_index + 1]]_vars
    /\ [](InRound =>
            /\ AttackingIndex = 0
            /\ AttackingTeam = AttackingTeamLoaded)

\* the opponent moved first, felled your first character and went on to attack your second
C11_Witness ==
    /\ pc = "round_loop"
    /\ ~is_your_turn_first
    /\ your_character_index = 1
    /\ opponent_character_index = 0
    /\ turn.phase = "returned"
    /\ ~turn.is_your_turn
    /\ turn.your_character = [your_team[2] EXCEPT
            !.effective_stats = turn.your_character.effective_stats]
    /\ turn.your_after.effective_stats.current_hp
            < turn.your_character.effective_stats.current_hp
    /\ Len(event_log) >= 2

\* C12: play_match makes exactly one first-mover draw, with probability 50;
\* it is the first draw, made before any roster is loaded and before any
\* turn is resolved, every later draw belongs to a turn, and every round
\* of the match is played with its result.
C12_OneFirstMoverDraw ==
    /\ [](pc = "start" =>
            /\ draws = <<>>
            /\ your_team = <<>> /\ opponent_team = <<>>
            /\ turn = TurnIdle /\ event_log = <<>>)
    /\ [](pc # "start" => Len(draws) >= 1 /\ draws[1] = 50 * Scale)
    /\ [][/\ pc = "start" => Len(draws') = 1
          /\ pc # "start" =>
                /\ is_your_turn_first' = is_your_turn_first
                /\ draws' # draws =>
                    /\ pc = "round_loop"
                    /\ draws' = draws \o turn'.draws
                    /\ turn'.is_your_turn = is_your_turn_first]_vars

\* a second round is under way after the one draw and the turns of the first round
C12_Witness ==
    /\ pc = "round_loop"
    /\ file_index = 2
    /\ Len(match_log) >= 1
    /\ Len(event_log) >= 1
    /\ Len(draws) >= 5
    /\ draws[1] = 50 * Scale

\* the rounds play_match has tallied so far
RoundsPlayed == file_index - 1

\* C13: every round played adds exactly one point to exactly one side,
\* yours when its outcome was True and the opponent's when it was False,
\* so the points add up to the number of rounds played; play_match
\* returns won = True exactly when your points exceed the opponent's,
\* and a tie yields False.
C13_PointsDecideMatch ==
    /\ [](pc \notin {"start", "round_loop", "round_end", "round_returned", "raised"} =>
            your_points + opponent_points = RoundsPlayed)
    /\ [](pc = "done" =>
            /\ RoundsPlayed = Pairs
            /\ match_won = (your_points > opponent_points)
            /\ your_points = opponent_points => ~match_won)
    /\ [][IF pc = "round_returned"
          THEN /\ outcome =>
                    /\ your_points' = your_points + 1
                    /\ opponent_points' = opponent_points
               /\ ~outcome =>
                    /\ your_points' = your_points
                    /\ opponent_points' = opponent_points + 1
          ELSE pc # "start" =>
                    /\ your_points' = your_points
                    /\ opponent_points' = opponent_points]_vars

\* a match of two rounds that ended one point each, and so was not won
C13_Witness ==
    /\ pc = "done"
    /\ Pairs = 2
    /\ your_points = 1
    /\ opponent_points = 1
    /\ ~match_won

\* C14: the match log is the concatenation, in round order, of the rounds'
\* event logs, and a round's event log holds one description per resolved
\* turn, in the order the turns were resolved.
C14_LogsInOrder ==
    /\ [](pc \in {"match_loop", "done"} =>
            2 * Len(match_log) = Len(draws) - Len(first_mover_draws))
    /\ [](pc \in {"round_loop", "round_end", "round_returned"} =>
            2 * (Len(match_log) + Len(event_log)) = Len(draws) - Len(first_mover_draws))
    /\ [][/\ TurnStep /\ turn'.phase = "returned" =>
                /\ event_log' = event_log \o <<turn'.description>>
                /\ turn'.description.name = TurnAttacker'.name
                /\ match_log' = match_log
          /\ pc = "round_returned" =>
                /\ Len(match_log') = Len(match_log) + Len(event_log)
                /\ \A i \in 1..Len(match_log) : match_log'[i] = match_log[i]
                /\ \A i \in 1..Len(event_log) :
                        match_log'[Len(match_log) + i] = event_log[i]
          /\ pc \notin {"start", "round_loop", "round_returned"} =>
                match_log' = match_log
          /\ pc \notin {"match_loop", "round_loop"} => event_log' = event_log
          /\ pc = "match_loop" => event_log' \in {event_log, <<>>}]_vars

\* the log of a second round, of other descriptions, follows the log of the first
C14_Witness ==
    /\ pc = "done"
    /\ Pairs = 2
    /\ Len(match_log) >= 4
    /\ match_log[1] # match_log[Len(match_log)]
    /\ match_log[1].name = "Ninja"
    /\ match_log[Len(match_log)].name = "Mage"

\* C16: a turn is resolved against the defending side's active character
\* alone, which has not fallen before; when the hit leaves that character
\* at current_hp exactly 0 the character keeps the hit, and the defending
\* side's index is one more before the next turn, or the round is over.
C16_FallenAtZeroReplaced ==
    [][TurnStep /\ turn'.phase = "returned" =>
            LET defender == DefendingTeam[DefendingIndex + 1]
            IN  /\ TurnDefender' = defender
                /\ defender.effective_stats.current_hp > 0
                /\ DefendingTeam'[DefendingIndex + 1] = TurnDefenderAfter'
                /\ \A i \in 1..Len(DefendingTeam) :
                        i # DefendingIndex + 1 => DefendingTeam'[i] = DefendingTeam[i]
                /\ TurnDefenderAfter'.effective_stats.current_hp = 0 =>
                        IF DefendingIndex + 1 < Len(DefendingTeam)
                        THEN DefendingIndex' = DefendingIndex + 1 /\ pc' = "round_loop"
                        ELSE pc' = "round_end"
                /\ TurnDefenderAfter'.effective_stats.current_hp > 0 =>
                        DefendingIndex' = DefendingIndex /\ pc' = "round_loop"]_vars

\* your first character fell at exactly 0 and the next turn hit your second
C16_Witness ==
    /\ pc \in {"round_loop", "round_end"}
    /\ ~is_your_turn_first
    /\ your_character_index = 1
    /\ your_team[1].effective_stats.current_hp = 0
    /\ turn.phase = "returned"
    /\ turn.your_character.name = your_team[2].name
    /\ turn.your_after = your_team[2]
    /\ turn.attack.damage.physical > 0
    /\ ~turn.is_damage_missed

-----------------------------------------------------------------------------
(* Properties of add_item and of the items (SpecAddItem) *)

UniquePassiveNames == {"Enchanted Sword", "Magic Cauldron"}

\* the position of the earliest-held item of a name the character holds
EarliestCopy(character, item_name) ==
    CHOOSE i \in HeldCopies(character, item_name) :
        \A j \in HeldCopies(character, item_name) : i <= j

\* C17: over any sequence of add_item calls an item is handed in with
\* is_passive_active true, a held item's flag never changes (so a flag once
\* false is never true again), the earliest-held copy of each unique-passive
\* name keeps its passive, and an item without a unique passive is never
\* disabled, held or rejected.
C17_PassiveFlagsMonotone ==
    /\ [](/\ \A i \in 1..Len(hero.items) :
                hero.items[i].name \notin UniquePassiveNames =>
                    hero.items[i].is_passive_active
          /\ \A n \in UniquePassiveNames :
                HeldCopies(hero, n) # {} =>
                    hero.items[EarliestCopy(hero, n)].is_passive_active
          /\ (add_call.phase # "idle" /\ add_call.item # NoneItem) =>
                /\ add_call.item.is_passive_active
                /\ add_call.item.name \notin UniquePassiveNames =>
                        add_call.item_after.is_passive_active)
    /\ [][/\ Len(hero'.items) >= Len(hero.items)
          /\ \A i \in 1..Len(hero.items) :
                /\ hero'.items[i].name = hero.items[i].name
                /\ hero'.items[i].is_passive_active = hero.items[i].is_passive_active]_vars

\* three Enchanted Swords are held: the earliest keeps its passive, the last lost it
C17_Witness ==
    /\ Len(hero.items) = 3
    /\ \A i \in 1..3 : hero.items[i].name = "Enchanted Sword"
    /\ hero.items[1].is_passive_active
    /\ ~hero.items[3].is_passive_active
    /\ add_call.phase = "raised"
    /\ add_call.item.name = "Shiny Staff"
    /\ add_call.item_after.is_passive_active

\* base_stats combined, in item order, with what each held item contributes
\* for the character's base stats, written out for up to MaxItems items
FoldedContributions(character) ==
    LET contribution(i) ==
            calculate_effective_stats(character.items[i], character.base_stats)
        one == add_stat_changes(character.base_stats, contribution(1))
        two == add_stat_changes(one, contribution(2))
        three == add_stat_changes(two, contribution(3))
    IN  CASE Len(character.items) = 0 -> character.base_stats
          [] Len(character.items) = 1 -> one
          [] Len(character.items) = 2 -> two
          [] Len(character.items) = 3 -> three

\* C18: after any sequence of add_item calls on a freshly created character
\* effective_stats is base_stats combined by add_stat_changes, in item
\* order, with each held item's calculate_effective_stats(base_stats), taken
\* with the item's current passive flag.
C18_EffectiveIsFoldOverItems ==
    /\ Len(hero.items) <= MaxItems
    /\ hero.effective_stats = FoldedContributions(hero)

\* three items are held, two of them with a passive that reads the base stats
C18_Witness ==
    /\ add_call.phase = "returned"
    /\ Len(hero.items) = 3
    /\ hero.items[1].name = "Shiny Staff"
    /\ hero.items[2].name = "Magic Cauldron"
    /\ hero.items[3].name = "Solid Rock"
    /\ hero.effective_stats.magic_power
            > hero.base_stats.magic_power + hero.items[1].base_item_stats.magic_power
    /\ hero.effective_stats.total_hp
            > hero.base_stats.total_hp + hero.items[2].base_item_stats.total_hp

\* the bonus an active passive adds for the character's base stats
PassiveBonus(item_name, base) ==
    CASE item_name = "Enchanted Sword" ->
            [NoStats EXCEPT !.special_trigger_chance =
                5 * Scale + (25 * base.special_trigger_chance) \div 100]
      [] item_name = "Shiny Staff" ->
            [NoStats EXCEPT !.magic_power = 1 * Scale + (5 * base.magic_power) \div 10]
      [] item_name = "Magic Cauldron" ->
            [NoStats EXCEPT !.current_hp = 10 * Scale + (3 * base.total_hp) \div 10,
                            !.total_hp = 10 * Scale + (3 * base.total_hp) \div 10]
      [] OTHER -> NoStats

\* C19: what calculate_effective_stats(base) returns is the item's own base
\* stats, field by field, plus the bonus of its passive when the passive is
\* active: no field of the item's base stats is dropped or overwritten.
C19_ContributionKeepsBaseStats ==
    (add_call.phase # "idle" /\ add_call.item # NoneItem) =>
        LET item == add_call.item_after
            base == add_call.before.base_stats
            own == item.base_item_stats
            bonus == IF item.is_passive_active THEN PassiveBonus(item.name, base)
                     ELSE NoStats
        IN  calculate_effective_stats(item, base) =
                [f \in DOMAIN own |-> own[f] + bonus[f]]

-----------------------------------------------------------------------------
(* Properties of the special attacks (SpecTurn) *)

\* C20: the damage of a special attack is worked out from the attacker's
\* effective stats as they are when the turn starts, item contributions
\* included: a Ninja's is physical, 40 + 0.5*pp + 0.5*mp, with magic 0; a
\* Mage's is magic, 1 + 1.25*mp, with physical 0; neither changes the
\* attacker's own stats.
C20_SpecialDamageFromEffectiveStats ==
    (turn.phase = "returned" /\ turn.is_attack_special) =>
        LET stats == TurnAttacker.effective_stats
        IN  /\ TurnAttacker.name = "Ninja" =>
                /\ turn.attack.damage.physical =
                        40 * Scale + (5 * stats.physical_power) \div 10
                                   + (5 * stats.magic_power) \div 10
                /\ turn.attack.damage.magic = 0
                /\ turn.attack.stat_updates_to_self = NoStats
            /\ TurnAttacker.name = "Mage" =>
                /\ turn.attack.damage.magic =
                        1 * Scale + (125 * stats.magic_power) \div 100
                /\ turn.attack.damage.physical = 0
                /\ turn.attack.stat_updates_to_self = NoStats

\* a Mage whose Shiny Staff doubled its magic power made its special attack
C20_Witness ==
    /\ turn.phase = "returned"
    /\ turn.is_attack_special
    /\ TurnAttacker.name = "Mage"
    /\ Len(TurnAttacker.items) = 1
    /\ TurnAttacker.effective_stats.magic_power = 20 * Scale
    /\ TurnAttacker.base_stats.magic_power = 10 * Scale
    /\ turn.attack.damage.magic = 26 * Scale

-----------------------------------------------------------------------------
(* Properties of play_turn (SpecTurn), continued *)

\* damage of one kind, of the other and of both
DamageKinds ==
    {Damage(physical, magic) :
        physical \in {0, 55 * Scale}, magic \in {0, 26 * Scale}} \ {Damage(0, 0)}

\* the miss chance the claim names for a damage and a defender's stats
MissChanceByKind(damage, stats) ==
    IF damage.physical > 0 THEN stats.armor \div 10 ELSE stats.magic_resistance \div 10

\* C21: the miss chance of a damaging attack is the defender's armor / 10
\* when the damage has a physical part (with or without a magic part) and
\* the defender's magic_resistance / 10 when it is magic alone, both taken
\* from the defender's effective stats as the turn starts.
C21_MissChanceByDamageKind ==
    turn.phase = "returned" =>
        /\ TurnDealsDamage =>
                turn.draws[2] =
                    MissChanceByKind(turn.attack.damage, TurnDefender.effective_stats)
        /\ \A damage \in DamageKinds :
                calculate_miss_chance(damage, TurnDefender.effective_stats) =
                    MissChanceByKind(damage, TurnDefender.effective_stats)

\* a magic attack on a defender with magic resistance and no armor drew at 2
C21_Witness ==
    /\ turn.phase = "returned"
    /\ turn.attack.damage.magic > 0
    /\ turn.attack.damage.physical = 0
    /\ TurnDefender.effective_stats.armor = 0
    /\ TurnDefender.effective_stats.magic_resistance = 20 * Scale
    /\ turn.draws[2] = 2 * Scale

\* C22: play_turn raises ValueError whenever one of the two characters it
\* is given is dead, its effective current_hp 0, as the turn starts.
C22_DeadCharacterRaises ==
    (/\ turn.phase \in {"returned", "raised"}
     /\ \/ turn.your_character.effective_stats.current_hp = 0
        \/ turn.opponent_character.effective_stats.current_hp = 0)
    => (turn.phase = "raised" /\ turn.raised = "ValueError")

-----------------------------------------------------------------------------
(* Properties of the loader within play_match (Spec) *)

KnownCharacters == {"ninja", "mage", "warrior"}

KnownItems == {"enchanted_sword", "shiny_staff", "pole", "magic_cauldron", "solid_rock"}

\* a roster file with an entry that names a character or an item of no known variant
HasUnknownKind(team_data) ==
    \E i \in 1..Len(team_data) :
        \/ team_data[i].character.name \notin KnownCharacters
        \/ \E j \in 1..Len(team_data[i].items) :
                team_data[i].items[j].name \notin KnownItems

\* the next round's pair of files has such an entry
BadRound ==
    /\ pc = "match_loop"
    /\ file_index <= Pairs
    /\ \/ HasUnknownKind(your_files[file_index])
       \/ HasUnknownKind(opponent_files[file_index])

\* C23: loading a roster with an entry of an unknown character or item name
\* fails with an error and yields no roster, not even the entries before
\* the bad one; play_round and play_match do not catch the error, so the
\* match stops there with no outcome and no log returned.
C23_UnknownKindAborts ==
    /\ [](\A i \in 1..Pairs :
            /\ HasUnknownKind(your_files[i]) =>
                    /\ read_data(your_files[i]).raised # "none"
                    /\ read_data(your_files[i]).character_list = <<>>
            /\ HasUnknownKind(opponent_files[i]) =>
                    /\ read_data(opponent_files[i]).raised # "none"
                    /\ read_data(opponent_files[i]).character_list = <<>>)
    /\ [](pc = "raised" => raised # "none")
    /\ [][/\ BadRound =>
                /\ pc' = "raised"
                /\ raised' = "ValueError"
                /\ UNCHANGED <<round_vars, match_log, match_won, your_points,
                               opponent_points, draws>>
          /\ pc # "raised"]_vars

\* the second round's roster has an item of no known kind after a sound
\* entry: the match stopped there, after a first round that was played
C23_Witness ==
    /\ pc = "raised"
    /\ raised = "ValueError"
    /\ file_index = 2
    /\ Len(your_files[2]) = 2
    /\ ~HasUnknownKind(<<your_files[2][1]>>)
    /\ HasUnknownKind(<<your_files[2][2]>>)
    /\ Len(match_log) >= 1
    /\ Len(your_team) = 1

\* C24: every probability handed to the decision source during a match,
\* for the first-mover draw, a special-trigger draw or a miss draw, lies in
\* [0, 100]; no stat of the rosters is negative.
C24_ProbabilitiesInRange ==
    \A i \in 1..Len(draws) : draws[i] >= 0 /\ draws[i] <= 100 * Scale

-----------------------------------------------------------------------------
(* Properties of add_item (SpecAddItem), continued *)

\* C26: an add_item call that fails with the capacity error leaves the
\* rejected item as it was: its is_passive_active flag after the call is
\* its flag before the call, whatever the character holds.
C26_RejectedItemUnchanged ==
    (/\ add_call.phase = "raised"
     /\ add_call.item # NoneItem
     /\ Len(add_call.before.items) >= 3)
    => add_call.item_after.is_passive_active = add_call.item.is_passive_active

-----------------------------------------------------------------------------
(* Properties of play_turn (SpecTurn), frame *)

OtherStatFields ==
    {"armor", "magic_resistance", "physical_power", "magic_power",
     "special_trigger_chance"}

\* C27: play_turn changes at most the defender's effective current_hp and,
\* for a self-heal, the attacker's effective current_hp and total_hp; the
\* base_stats and the items of both characters and every other field of
\* their effective stats are after the turn what they were before it.
C27_TurnChangesHpOnly ==
    turn.phase = "returned" =>
        /\ TurnDefenderAfter.base_stats = TurnDefender.base_stats
        /\ TurnDefenderAfter.items = TurnDefender.items
        /\ TurnAttackerAfter.base_stats = TurnAttacker.base_stats
        /\ TurnAttackerAfter.items = TurnAttacker.items
        /\ TurnDefenderAfter.effective_stats.total_hp
                = TurnDefender.effective_stats.total_hp
        /\ \A f \in OtherStatFields :
                /\ TurnDefenderAfter.effective_stats[f] = TurnDefender.effective_stats[f]
                /\ TurnAttackerAfter.effective_stats[f] = TurnAttacker.effective_stats[f]

\* C27 as amended: play_turn leaves the base_stats and the items of both
\* characters and every effective stat of the attacker but its hp as they
\* were; of the defender it leaves total_hp, magic_resistance,
\* physical_power and magic_power as they were, and when the miss draw is
\* false the defender's stats pass through add_stat_changes, which raises
\* an armor below 0 to 0 and lowers a special_trigger_chance above 100 to
\* 100; when the attack is missed the defender is as it was.
C27_TurnChangesHpAndClamps ==
    turn.phase = "returned" =>
        LET before == TurnDefender.effective_stats
            after == TurnDefenderAfter.effective_stats
        IN  /\ TurnDefenderAfter.base_stats = TurnDefender.base_stats
            /\ TurnDefenderAfter.items = TurnDefender.items
            /\ TurnAttackerAfter.base_stats = TurnAttacker.base_stats
            /\ TurnAttackerAfter.items = TurnAttacker.items
            /\ \A f \in OtherStatFields :
                    TurnAttackerAfter.effective_stats[f] = TurnAttacker.effective_stats[f]
            /\ \A f \in {"total_hp", "magic_resistance", "physical_power", "magic_power"} :
                    after[f] = before[f]
            /\ turn.is_damage_missed => after = before
            /\ ~turn.is_damage_missed =>
                    /\ after.armor = (IF before.armor < 0 THEN 0 ELSE before.armor)
                    /\ after.special_trigger_chance =
                            (IF before.special_trigger_chance > 100 * Scale
                             THEN 100 * Scale ELSE before.special_trigger_chance)

\* a hit landed on a defender of armor -10 and left it with armor 0
C27_Witness ==
    /\ turn.phase = "returned"
    /\ ~turn.is_damage_missed
    /\ TurnDealsDamage
    /\ TurnDefender.effective_stats.armor = -10 * Scale
    /\ TurnDefenderAfter.effective_stats.armor = 0
    /\ TurnDefenderAfter.effective_stats.current_hp
            < TurnDefender.effective_stats.current_hp

-----------------------------------------------------------------------------
(* Properties of play_round (Spec), indices *)

\* C28: in play_round both active indices start at 0, never decrease and
\* grow by at most 1 per turn; a turn is resolved only while each index is
\* below the length of its roster, so none is resolved on an empty roster
\* and no roster is indexed out of range; the round stops as soon as an
\* index has reached the end of its roster.
C28_IndicesInRange ==
    /\ [](InRound =>
            /\ your_character_index \in 0..Len(your_team)
            /\ opponent_character_index \in 0..Len(opponent_team)
            /\ (pc = "round_loop" /\ LoopCondition) =>
                    /\ your_character_index < Len(your_team)
                    /\ opponent_character_index < Len(opponent_team))
    /\ [][/\ (pc = "match_loop" /\ pc' = "round_loop") =>
                /\ your_character_index' = 0
                /\ opponent_character_index' = 0
          /\ InRound =>
                /\ your_character_index' \in
                        {your_character_index, your_character_index + 1}
                /\ opponent_character_index' \in
                        {opponent_character_index, opponent_character_index + 1}
          /\ TurnStep =>
                /\ your_character_index < Len(your_team)
                /\ opponent_character_index < Len(opponent_team)
          /\ (/\ pc = "round_loop"
              /\ \/ your_character_index = Len(your_team)
                 \/ opponent_character_index = Len(opponent_team)) =>
                /\ pc' = "round_returned"
                /\ draws' = draws
                /\ event_log' = event_log]_vars

\* your index went from 0 to 1 and the round stopped when your second character fell
C28_Witness ==
    /\ pc = "round_end"
    /\ Len(your_team) = 2
    /\ your_character_index = 1
    /\ opponent_character_index = 0
    /\ Len(event_log) >= 2
    /\ \A i \in 1..2 : your_team[i].effective_stats.current_hp = 0

=============================================================================
